---- MODULE Spec2Model ----
(***************************************************************************)
(* A model of the AgenticDataAnalyzer repository:                          *)
(*   - validate_data (src/utils_agentic.py), the per-row repair pass over  *)
(*     a customer data frame, run on a raw frame and then on its own       *)
(*     output, followed by the per-column issue summary of src/app02.py;   *)
(*   - the question-answering graph generate_sql -> run_sql                *)
(*     (run_llm_sql, execute_sql) and the Streamlit script of src/app02.py *)
(*     that records every exchange in st.session_state.chat_history.       *)
(* Text is modelled by TLA+ strings (Len, \o and SubSeq act on them),      *)
(* ages by IEEE-754 binary64 values, balances by integers.                 *)
(***************************************************************************)
EXTENDS Integers, Sequences, FiniteSets, TLC

VARIABLES
    df_raw,             \* state["df_raw"]: a frame [header, rows, balance_dtype, ...]
    df,                 \* the working copy validate_data repairs
    pc,                 \* position of the validation run
    run,                \* 1: validating the raw frame, 2: validating the first output
    i,                  \* index of the row the loop of line 45 is at
    balance_thresh,     \* line 41: None, NaN, or a number kept as threshold * 100
    existing_ids,       \* line 42
    auto_id_counter,    \* line 43
    issues,             \* line 33: one joined text per processed row
    fixes,              \* line 33
    raw0,               \* the raw frame of run 1 (kept for comparison)
    out1,               \* the cleaned frame run 1 returned
    issue_tracker,      \* src/app02.py line 52
    chat_history,       \* st.session_state.chat_history
    submitted_question, \* st.session_state.submitted_question
    script_pc,          \* position of the current run of the script of src/app02.py
    local,              \* the script's locals sql, df_answer, status (line 112)
    qa_pc,              \* the node the QA graph is at
    state,              \* the GraphState handed from node to node
    calls,              \* how often each node ran in the current invocation
    response,           \* what the model call of line 143 did: a reply text, or NA (it raised)
    store               \* what the query of line 158 did: a table, or NA (it raised)

vvars == <<df_raw, df, pc, run, i, balance_thresh, existing_ids, auto_id_counter,
           issues, fixes, raw0, out1, issue_tracker>>
cvars == <<chat_history, submitted_question, script_pc, local>>
gvars == <<qa_pc, state, calls, response, store>>
qvars == <<cvars, gvars>>
vars == <<vvars, qvars>>

-----------------------------------------------------------------------------
(* Bounds of the model.                                                    *)

MaxRows == 3
MaxHistory == 3
MaxFragments == 3

-----------------------------------------------------------------------------
(* Absent values. pd.isna is true of NaN, None and pd.NA alike; a cell is  *)
(* <<>> when absent and <<v>> when it holds v.                             *)

NA == <<>>
Some(v) == <<v>>
Val(x) == x[1]
IsNA(x) == x = NA

Max(a, b) == IF a >= b THEN a ELSE b
Min(a, b) == IF a <= b THEN a ELSE b

-----------------------------------------------------------------------------
(* Numbers as text: f"AUTO-{auto_id_counter}" and the digits of "{:.1f}".  *)

Digit(d) == SubSeq("0123456789", d + 1, d + 1)

RECURSIVE IntToStr(_)
IntToStr(n) == IF n < 10 THEN Digit(n) ELSE IntToStr(n \div 10) \o Digit(n % 10)

-----------------------------------------------------------------------------
(* IEEE-754 binary64, for the positive finite values the age column holds. *)
(* A value is [m |-> 53 bits, most significant first and leading bit 1,    *)
(* e |-> exponent], standing for m * 2^e. Every operation computes the     *)
(* exact result and rounds it to nearest, ties to even, as the hardware    *)
(* does for the float64 sum and quotient of Series.mean().                 *)
(* A value that is used more than once is handed on as an operator         *)
(* argument, so that it is computed once.                                  *)

Precision == 53

Zeros(k) == [j \in 1..k |-> 0]

RECURSIVE BitsOfNat(_)
BitsOfNat(n) == IF n = 0 THEN <<>> ELSE Append(BitsOfNat(n \div 2), n % 2)

RECURSIVE NatOfBits(_)
NatOfBits(b) ==
    IF b = <<>> THEN 0 ELSE 2 * NatOfBits(SubSeq(b, 1, Len(b) - 1)) + b[Len(b)]

StripZeros(b) ==
    IF \A j \in 1..Len(b) : b[j] = 0 THEN <<>>
    ELSE LET k == CHOOSE k \in 1..Len(b) : b[k] = 1 /\ \A j \in 1..(k - 1) : b[j] = 0
         IN  SubSeq(b, k, Len(b))

PadLeft(b, n) == Zeros(n - Len(b)) \o b

\* Bit strings are added and divided thirteen bits (one limb) at a time.
LimbBits == 13
LimbBase == 2 ^ LimbBits

ToLimbs(b) ==
    [j \in 1..(Len(b) \div LimbBits) |->
        NatOfBits(SubSeq(b, LimbBits * (j - 1) + 1, LimbBits * j))]

FromLimbs(l) ==
    [j \in 1..(LimbBits * Len(l)) |->
        (l[(j - 1) \div LimbBits + 1] \div (2 ^ (LimbBits - 1 - ((j - 1) % LimbBits)))) % 2]

\* a + b + c for limb strings of one length; the result is one limb longer
RECURSIVE AddLimbs(_, _, _)
AddLimbs(a, b, c) ==
    IF a = <<>> THEN <<c>>
    ELSE LET n == Len(a)
             s == a[n] + b[n] + c
         IN  Append(AddLimbs(SubSeq(a, 1, n - 1), SubSeq(b, 1, n - 1), s \div LimbBase),
                    s % LimbBase)

BigAdd(a, b) ==
    LET n == LimbBits * ((Max(Len(a), Len(b)) + LimbBits - 1) \div LimbBits)
    IN  StripZeros(FromLimbs(AddLimbs(ToLimbs(PadLeft(a, n)), ToLimbs(PadLeft(b, n)), 0)))

\* one step of the long division by n: the next limb after the prefix's result p
DivStep(p, limb, n) ==
    [q |-> Append(p.q, (LimbBase * p.r + limb) \div n),
     r |-> (LimbBase * p.r + limb) % n]

\* long division of the first k limbs of l by the small integer n
RECURSIVE DivPrefix(_, _, _)
DivPrefix(l, n, k) ==
    IF k = 0 THEN [q |-> <<>>, r |-> 0] ELSE DivStep(DivPrefix(l, n, k - 1), l[k], n)

\* top + 1 for a 53-bit top: 54 bits when it carries out
Incremented(inc, e) ==
    IF Len(inc) > Precision
    THEN [m |-> SubSeq(inc, 1, Precision), e |-> e + 1]
    ELSE [m |-> inc, e |-> e]

\* big * 2^e (plus something below its last bit when sticky) rounded to 53 bits
RoundBits(big, e, sticky) ==
    IF Len(big) <= Precision
    THEN [m |-> big \o Zeros(Precision - Len(big)), e |-> e - (Precision - Len(big))]
    ELSE IF /\ big[Precision + 1] = 1
            /\ \/ sticky
               \/ \E j \in (Precision + 2)..Len(big) : big[j] = 1
               \/ big[Precision] = 1
         THEN Incremented(BigAdd(SubSeq(big, 1, Precision), <<1>>),
                          e + (Len(big) - Precision))
         ELSE [m |-> SubSeq(big, 1, Precision), e |-> e + (Len(big) - Precision)]

FromInt(n) == RoundBits(BitsOfNat(n), 0, FALSE)

AddAligned(x, y, e) ==
    RoundBits(BigAdd(x.m \o Zeros(x.e - e), y.m \o Zeros(y.e - e)), e, FALSE)

FAdd(x, y) == AddAligned(x, y, Min(x.e, y.e))

Quotient(qr, e) == RoundBits(StripZeros(FromLimbs(qr.q)), e, qr.r # 0)

DivLimbs(l, n, e) == Quotient(DivPrefix(l, n, Len(l)), e)

FDivInt(x, n) ==
    DivLimbs(ToLimbs(PadLeft(x.m, 5 * LimbBits) \o Zeros(LimbBits)), n, x.e - LimbBits)

\* ten * 2^(-shift) rounded to an integer, ties to even, for shift > 0
RoundShift(ten, shift, ip) ==
    IF /\ ten[Len(ten) - shift + 1] = 1
       /\ \/ \E j \in (Len(ten) - shift + 2)..Len(ten) : ten[j] = 1
          \/ ip % 2 = 1
    THEN ip + 1 ELSE ip

TenthsOf(ten, shift) ==
    IF shift <= 0 THEN NatOfBits(ten \o Zeros(0 - shift))
    ELSE RoundShift(ten, shift, NatOfBits(SubSeq(ten, 1, Len(ten) - shift)))

TimesTen(m) == BigAdd(m \o <<0, 0, 0>>, m \o <<0>>)

Padded(b, n) == PadLeft(b, Max(Len(b), n))

\* round(10 * x) to an integer, ties to even: the digits "{x:.1f}" prints
Tenths(x) == TenthsOf(Padded(TimesTen(x.m), 1 - x.e), 0 - x.e)

Digits1(t) == IntToStr(t \div 10) \o "." \o Digit(t % 10)

FormatOneDecimal(x) == Digits1(Tenths(x))

-----------------------------------------------------------------------------
(* Text helpers: the str methods the code calls.                           *)

CharAt(s, k) == SubSeq(s, k, k)

UpperCase == "ABCDEFGHIJKLMNOPQRSTUVWXYZ"
LowerCase == "abcdefghijklmnopqrstuvwxyz"

IsSpace(c) == c \in {" ", "\t", "\n", "\r"}
IsDigit(c) == \E d \in 0..9 : c = Digit(d)
DigitVal(c) == CHOOSE d \in 0..9 : c = Digit(d)

LowerChar(c) ==
    IF \E k \in 1..26 : CharAt(UpperCase, k) = c
    THEN CharAt(LowerCase, CHOOSE k \in 1..26 : CharAt(UpperCase, k) = c)
    ELSE c

UpperChar(c) ==
    IF \E k \in 1..26 : CharAt(LowerCase, k) = c
    THEN CharAt(UpperCase, CHOOSE k \in 1..26 : CharAt(LowerCase, k) = c)
    ELSE c

\* str.lower()
RECURSIVE Lower(_)
Lower(s) ==
    IF Len(s) = 0 THEN ""
    ELSE IF Len(s) = 1 THEN LowerChar(s)
    ELSE LET h == Len(s) \div 2
         IN  Lower(SubSeq(s, 1, h)) \o Lower(SubSeq(s, h + 1, Len(s)))

\* str.replace(' ', '_')
RECURSIVE SpacesToUnderscores(_)
SpacesToUnderscores(s) ==
    IF Len(s) = 0 THEN ""
    ELSE IF Len(s) = 1 THEN (IF s = " " THEN "_" ELSE s)
    ELSE LET h == Len(s) \div 2
         IN  SpacesToUnderscores(SubSeq(s, 1, h))
                 \o SpacesToUnderscores(SubSeq(s, h + 1, Len(s)))

Indices(n) == [k \in 1..n |-> k]

\* the positions of s whose character is a space (or is none, for FALSE), in order
SpacePositions(s, space) == SelectSeq(Indices(Len(s)), LAMBDA k : IsSpace(CharAt(s, k)) = space)

\* the positions of s that hold the character c, in order
Positions(s, c) == SelectSeq(Indices(Len(s)), LAMBDA k : CharAt(s, k) = c)

Between(s, keep) == IF keep = <<>> THEN "" ELSE SubSeq(s, keep[1], keep[Len(keep)])

\* str.strip()
Strip(s) == Between(s, SpacePositions(s, FALSE))

\* sub in s
Contains(s, sub) ==
    \E p \in 1..(Len(s) - Len(sub) + 1) : SubSeq(s, p, p + Len(sub) - 1) = sub

\* sep.join(parts)
RECURSIVE Join(_, _)
Join(parts, sep) ==
    IF parts = <<>> THEN ""
    ELSE IF Len(parts) = 1 THEN parts[1]
    ELSE Join(SubSeq(parts, 1, Len(parts) - 1), sep) \o sep \o parts[Len(parts)]

\* the pieces of s between the positions at
SplitAt(s, at) ==
    [k \in 1..(Len(at) + 1) |->
        SubSeq(s, (IF k = 1 THEN 0 ELSE at[k - 1]) + 1,
                  (IF k = Len(at) + 1 THEN Len(s) + 1 ELSE at[k]) - 1)] \o <<>>

\* s.split(c) for a one-character separator c
Split(s, c) == SplitAt(s, Positions(s, c))

UpTo(t, sp) == IF sp = <<>> THEN t ELSE SubSeq(t, 1, sp[1] - 1)

\* s.split()[0], for a text that holds a word
FirstWord(s) == UpTo(Strip(s), SpacePositions(Strip(s), TRUE))

\* str.capitalize()
Capitalize(s) ==
    IF Len(s) = 0 THEN "" ELSE UpperChar(CharAt(s, 1)) \o Lower(SubSeq(s, 2, Len(s)))

-----------------------------------------------------------------------------
(* The data frame. A frame is [header, rows, balance_dtype,                *)
(* validation_issues, fix_suggestions]: header holds the column names as   *)
(* the file gives them, a row is a record over expected_cols whose cells   *)
(* are NA or Some(value), and the two derived columns are <<>> until       *)
(* validate_data adds them.                                                *)

expected_cols ==
    <<"customer_id", "name", "surname", "gender", "age", "region",
      "job_classification", "date_joined", "balance">>

ExpectedSet == {expected_cols[k] : k \in 1..Len(expected_cols)}

\* line 35: c.strip().lower().replace(' ', '_')
NormalizeColumn(c) == SpacesToUnderscores(Lower(Strip(c)))

NormalizedHeader(frame) ==
    [k \in 1..Len(frame.header) |-> NormalizeColumn(frame.header[k])] \o <<>>

HasColumn(header, c) == \E k \in 1..Len(header) : header[k] = c

\* lines 37-39: a column the file lacks is added with pd.NA in every row
MissingCols(header) == {c \in ExpectedSet : ~HasColumn(header, c)}

BlankCols(row, cols) ==
    IF cols = {} THEN row ELSE [c \in DOMAIN row |-> IF c \in cols THEN NA ELSE row[c]]

AppendMissing(header) ==
    header \o SelectSeq(expected_cols, LAMBDA c : ~HasColumn(header, c))

WithHeader(frame, h) ==
    [header            |-> AppendMissing(h),
     rows              |-> [k \in 1..Len(frame.rows) |->
                               BlankCols(frame.rows[k], MissingCols(h))] \o <<>>,
     balance_dtype     |-> IF HasColumn(h, "balance")
                           THEN frame.balance_dtype ELSE "object",
     validation_issues |-> frame.validation_issues,
     fix_suggestions   |-> frame.fix_suggestions]

\* lines 32-39: the working copy
WorkingCopy(frame) == WithHeader(frame, NormalizedHeader(frame))

-----------------------------------------------------------------------------
(* line 41: df['balance'].quantile(0.99), linear interpolation over the    *)
(* non-absent balances. Balances are integers here, and the threshold is   *)
(* kept exactly as one hundred times its value.                            *)

\* df['balance'] as a sequence of cells
BalanceColumn(rows) == [k \in 1..Len(rows) |-> rows[k].balance] \o <<>>

Values(cells) == [k \in 1..Len(cells) |-> Val(cells[k])] \o <<>>

NoThresh == [kind |-> "None", t100 |-> 0]
NanThresh == [kind |-> "nan", t100 |-> 0]

\* the value at position 0.99 * (n - 1) of the sorted balances v
Interpolate(v, lo, r) ==
    IF r = 0 THEN 100 * v[lo + 1] ELSE 100 * v[lo + 1] + r * (v[lo + 2] - v[lo + 1])

QuantileOf(v) ==
    IF Len(v) = 0 THEN NanThresh
    ELSE [kind |-> "num",
          t100 |-> Interpolate(v, (99 * (Len(v) - 1)) \div 100, (99 * (Len(v) - 1)) % 100)]

Quantile99(rows) ==
    QuantileOf(SortSeq(Values(SelectSeq(BalanceColumn(rows), LAMBDA c : ~IsNA(c))),
                       LAMBDA a, b : a < b))

BalanceThresh(frame) ==
    IF frame.balance_dtype = "float64" THEN Quantile99(frame.rows) ELSE NoThresh

\* bool(balance_thresh): None and 0.0 are falsy, NaN is truthy
Truthy(thresh) ==
    \/ thresh.kind = "nan"
    \/ thresh.kind = "num" /\ thresh.t100 # 0

\* row['balance'] > balance_thresh: False when either side is NaN
ExceedsThresh(balance, thresh) ==
    /\ ~IsNA(balance)
    /\ thresh.kind = "num"
    /\ 100 * Val(balance) > thresh.t100

\* line 102
IsOutlier(thresh, row) == Truthy(thresh) /\ ExceedsThresh(row.balance, thresh)

-----------------------------------------------------------------------------
(* line 85: df['age'].mean(), the float64 sum of the non-absent ages in    *)
(* row order divided by their number; NaN (absent) when there is none.     *)

\* df['age'].dropna()
PresentAges(rows) ==
    SelectSeq([k \in 1..Len(rows) |-> rows[k].age] \o <<>>, LAMBDA c : ~IsNA(c))

\* the sum of the first k cells, added left to right
RECURSIVE SumFloats(_, _)
SumFloats(cells, k) ==
    IF k = 1 THEN Val(cells[1])
    ELSE FAdd(SumFloats(cells, k - 1), Val(cells[k]))

Mean(cells) ==
    IF Len(cells) = 0 THEN NA
    ELSE Some(FDivInt(SumFloats(cells, Len(cells)), Len(cells)))

MeanAge(rows) == Mean(PresentAges(rows))

\* f"{avg_age:.1f}"
FormatAge(a) == IF IsNA(a) THEN "nan" ELSE FormatOneDecimal(Val(a))

-----------------------------------------------------------------------------
(* lines 95-97: pd.to_datetime(value, format="%d.%b.%y") raises for a text *)
(* that is not day.MonthAbbreviation.twoDigitYear. For an absent value it  *)
(* raises nothing: to_datetime maps NaN, None and pd.NA to NaT.            *)

MonthNames ==
    <<"jan", "feb", "mar", "apr", "may", "jun", "jul", "aug", "sep", "oct", "nov", "dec">>

AllDigits(t) == Len(t) > 0 /\ \A k \in 1..Len(t) : IsDigit(CharAt(t, k))

RECURSIVE StrToInt(_)
StrToInt(t) ==
    IF Len(t) = 0 THEN 0
    ELSE 10 * StrToInt(SubSeq(t, 1, Len(t) - 1)) + DigitVal(CharAt(t, Len(t)))

\* %y: 69..99 are 1969..1999, 00..68 are 2000..2068
FullYear(yy) == IF yy >= 69 THEN 1900 + yy ELSE 2000 + yy

IsLeap(y) == y % 4 = 0 /\ (y % 100 # 0 \/ y % 400 = 0)

DaysIn(month, y) ==
    IF month = 2 THEN (IF IsLeap(y) THEN 29 ELSE 28)
    ELSE IF month \in {4, 6, 9, 11} THEN 30 ELSE 31

MonthOf(name) == CHOOSE m \in 1..12 : MonthNames[m] = name

ValidDay(d, m, yy) == d >= 1 /\ d <= DaysIn(m, FullYear(yy))

DateParts(parts) ==
    /\ Len(parts) = 3
    /\ Len(parts[1]) \in {1, 2} /\ AllDigits(parts[1])
    /\ \E m \in 1..12 : MonthNames[m] = Lower(parts[2])
    /\ Len(parts[3]) = 2 /\ AllDigits(parts[3])
    /\ ValidDay(StrToInt(parts[1]), MonthOf(Lower(parts[2])), StrToInt(parts[3]))

MatchesDateFormat(t) == DateParts(Split(t, "."))

DateRaises(cell) == ~IsNA(cell) /\ ~MatchesDateFormat(Val(cell))

DefaultDate == "01.Jan.00"

-----------------------------------------------------------------------------
(* lines 43-57: auto-generated customer ids.                               *)

AutoIdBase == 100001

AutoId(n) == "AUTO-" \o IntToStr(n)

\* the counter as it stands, taken or not
SameCounter(n, ids) == n

\* lines 49-52: the first counter value at or above n whose id is not taken
RECURSIVE FreeCounter(_, _)
FreeCounter(n, ids) == IF AutoId(n) \in ids THEN FreeCounter(n + 1, ids) ELSE n

\* line 42: set(df['customer_id'].dropna().astype(str)); the ids are text
ExistingIds(rows) ==
    {Val(rows[k].customer_id) : k \in {j \in 1..Len(rows) : ~IsNA(rows[j].customer_id)}}

\* every row treated as lacking its id
AlwaysMissing(row) == TRUE

\* line 48
MissingCustomerId(row) == IsNA(row.customer_id)

\* line 90
NeedsBalanceFix(row) == IsNA(row.balance) \/ Val(row.balance) < 0

When(cond, text) == IF cond THEN <<text>> ELSE <<>>

\* lines 46-106: one iteration of the loop, for row k of rows. row is the
\* value iterrows() yields: the row as it was when the loop began.
ProcessRow(row, rows, k, ids, counter, thresh) ==
    LET noId    == MissingCustomerId(row)
        free    == FreeCounter(counter, ids)
        new_id  == AutoId(free)
        a1      == IF noId THEN [rows EXCEPT ![k].customer_id = Some(new_id)] ELSE rows
        a2      == IF IsNA(row.name) THEN [a1 EXCEPT ![k].name = Some("Unknown")] ELSE a1
        a3      == IF IsNA(row.surname)
                   THEN [a2 EXCEPT ![k].surname = Some("Unknown")] ELSE a2
        a4      == IF IsNA(row.gender)
                   THEN [a3 EXCEPT ![k].gender = Some("Not Specified")] ELSE a3
        a5      == IF IsNA(row.region)
                   THEN [a4 EXCEPT ![k].region = Some("Unknown")] ELSE a4
        a6      == IF IsNA(row.job_classification)
                   THEN [a5 EXCEPT ![k].job_classification = Some("Other")] ELSE a5
        avg_age == MeanAge(a6)
        a7      == IF IsNA(row.age) THEN [a6 EXCEPT ![k].age = avg_age] ELSE a6
        a8      == IF NeedsBalanceFix(row) THEN [a7 EXCEPT ![k].balance = Some(0)] ELSE a7
        badDate == DateRaises(row.date_joined)
        a9      == IF badDate
                   THEN [a8 EXCEPT ![k].date_joined = Some(DefaultDate)] ELSE a8
        row_issues ==
            When(noId, "Missing customer_id")
            \o When(IsNA(row.name), "Missing name")
            \o When(IsNA(row.surname), "Missing surname")
            \o When(IsNA(row.gender), "Missing gender")
            \o When(IsNA(row.region), "Missing region")
            \o When(IsNA(row.job_classification), "Missing job_classification")
            \o When(IsNA(row.age), "Missing age")
            \o When(NeedsBalanceFix(row), "Missing or negative balance")
            \o When(badDate, "Bad date format")
            \o When(IsOutlier(thresh, row), "Outlier in balance")
        row_fixes ==
            When(noId, "Auto-generated ID: " \o new_id)
            \o When(IsNA(row.name), "Filled name with 'Unknown'")
            \o When(IsNA(row.surname), "Filled surname with 'Unknown'")
            \o When(IsNA(row.gender), "Filled gender with 'Not Specified'")
            \o When(IsNA(row.region), "Filled region with 'Unknown'")
            \o When(IsNA(row.job_classification), "Filled job_classification with 'Other'")
            \o When(IsNA(row.age), "Filled age with average age " \o FormatAge(avg_age))
            \o When(NeedsBalanceFix(row), "Filled balance with 0")
            \o When(badDate, "Filled with default date 01.Jan.00")
    IN  [rows    |-> a9,
         ids     |-> IF noId THEN ids \cup {new_id} ELSE ids,
         counter |-> IF noId THEN free + 1 ELSE counter,
         issues  |-> Join(row_issues, "; "),
         fixes   |-> Join(row_fixes, "; ")]

-----------------------------------------------------------------------------
(* src/app02.py lines 51-84: the per-column issue summary.                 *)

\* lines 62-81: the elif chain
ColumnOf(issue_lower) ==
    IF Contains(issue_lower, "customer_id") THEN "customer_id"
    ELSE IF Contains(issue_lower, "name") THEN "name"
    ELSE IF Contains(issue_lower, "surname") THEN "surname"
    ELSE IF Contains(issue_lower, "gender") THEN "gender"
    ELSE IF Contains(issue_lower, "age") THEN "age"
    ELSE IF Contains(issue_lower, "region") THEN "region"
    ELSE IF Contains(issue_lower, "job_classification") THEN "job_classification"
    ELSE IF Contains(issue_lower, "date") THEN "date_joined"
    ELSE IF Contains(issue_lower, "balance") THEN "balance"
    ELSE "unknown"

\* lines 61-81
IssueColumn(issue) == ColumnOf(Lower(issue))

\* line 83
IssueType(issue) == Capitalize(FirstWord(issue))

Stripped(parts) == [k \in 1..Len(parts) |-> Strip(parts[k])] \o <<>>

KeysOf(pieces) ==
    [k \in 1..Len(pieces) |-> <<IssueColumn(pieces[k]), IssueType(pieces[k])>>] \o <<>>

\* lines 55-59 and 83: the <<col, issue_type>> of each non-empty piece of val
RowKeys(val) ==
    IF val = "" THEN <<>>
    ELSE KeysOf(SelectSeq(Stripped(Split(val, ";")), LAMBDA t : t # ""))

\* line 54: the keys of rows a..b of the column, in order
RECURSIVE ColumnKeys(_, _, _)
ColumnKeys(col, a, b) ==
    IF a > b THEN <<>>
    ELSE IF a = b THEN RowKeys(col[a])
    ELSE ColumnKeys(col, a, (a + b) \div 2) \o ColumnKeys(col, (a + b) \div 2 + 1, b)

\* line 84: issue_tracker[col][issue_type] += 1, for every key
Counted(keys) ==
    [ct \in {keys[n] : n \in 1..Len(keys)} |->
        Cardinality({n \in 1..Len(keys) : keys[n] = ct})]

\* lines 52-84
IssueTracker(col) == Counted(ColumnKeys(col, 1, Len(col)))

-----------------------------------------------------------------------------------------------------------------------------------------------------
(* src/utils_agentic.py lines 122-162: the two nodes of the QA graph.      *)

\* pd.DataFrame()
EmptyTable == [columns |-> 0, rows |-> 0]

\* a GraphState with no key set but question
NoState == [question |-> NA, sql |-> NA, result |-> NA, status |-> NA]
Entry(question) == [NoState EXCEPT !.question = Some(question)]

SetMin(S) == CHOOSE x \in S : \A y \in S : x <= y

\* line 146: SELECT, whatever the case of its letters, at position p of t
KeywordAt(t, p) == p + 5 <= Len(t) /\ Lower(SubSeq(t, p, p + 5)) = "select"

\* line 146, [\s\S]+? followed by ";": the semicolons the match from p can
\* end at, each with one character or more between the keyword and it
BodyEnds(t, p) == {q \in (p + 7)..Len(t) : CharAt(t, q) = ";"}

\* a greedy body: the match ends at the last of them
LastEnd(ends) == CHOOSE q \in ends : \A r \in ends : q >= r

\* +? is lazy: the match ends at the first of them
MatchEnd(ends) == SetMin(ends)

\* line 146: where a match can start
MatchStarts(t) == {p \in 1..Len(t) : KeywordAt(t, p) /\ BodyEnds(t, p) # {}}

\* group(1) of the match that starts at p
Group1(t, p) == SubSeq(t, p, MatchEnd(BodyEnds(t, p)) - 1)

\* line 146: re.search returns the leftmost match, or None
ReSearch(t) ==
    IF MatchStarts(t) = {} THEN NA ELSE Some(Group1(t, SetMin(MatchStarts(t))))

\* line 147
SqlOf(sql_match) == IF IsNA(sql_match) THEN "" ELSE Val(sql_match) \o ";"

\* lines 144-147
ExtractSql(text) == SqlOf(ReSearch(Strip(text)))

\* lines 122-152. reply is NA when a call inside the try block raised.
run_llm_sql(st, reply) ==
    IF IsNA(reply)
    THEN [st EXCEPT !.sql = Some(""), !.status = Some("FAILED")]
    ELSE [st EXCEPT !.sql = Some(ExtractSql(Val(reply)))]

\* a query that reads whatever statement it is given
ReadAnything(st, outcome) == outcome

\* line 158: pd.read_sql raises for a state without sql and for an empty
\* statement (no result set to read); otherwise the store decides
ReadSql(st, outcome) ==
    IF IsNA(st.sql) \/ st.sql = Some("") THEN NA ELSE outcome

Executed(st, table) ==
    IF IsNA(table)
    THEN [st EXCEPT !.result = Some(EmptyTable), !.status = Some("FAILED")]
    ELSE [st EXCEPT !.result = table, !.status = Some("OK")]

\* lines 155-162
execute_sql(st, outcome) == Executed(st, ReadSql(st, outcome))

\* lines 175-182: generate_sql, then run_sql, then the end
Invoke(question, reply, outcome) ==
    execute_sql(run_llm_sql(Entry(question), reply), outcome)

\* dict.get(key, default)
Get(st, key, default) == IF IsNA(st[key]) THEN default ELSE Val(st[key])

-----
(* The raw frames the validation runs start from.                          *)

FileHeader ==
    <<"Customer ID", "Name", "Surname", "Gender", "Age", "Region",
      "Job Classification", "Date Joined", "Balance">>

HeaderWithout(cols) == SelectSeq(FileHeader, LAMBDA c : NormalizeColumn(c) \notin cols)

\* a frame as read from a file that lacks the columns cols
RawFrame(cols, rows) ==
    [header            |-> HeaderWithout(cols),
     rows              |-> [k \in 1..Len(rows) |-> BlankCols(rows[k], cols)],
     balance_dtype     |-> IF "balance" \in cols THEN "none" ELSE "float64",
     validation_issues |-> <<>>,
     fix_suggestions   |-> <<>>]

GoodRow ==
    [customer_id        |-> Some("C7"),
     name               |-> Some("Ann"),
     surname            |-> Some("Lee"),
     gender             |-> Some("F"),
     age                |-> Some(FromInt(30)),
     region             |-> Some("North"),
     job_classification |-> Some("Clerk"),
     date_joined        |-> Some("05.Jan.23"),
     balance            |-> Some(10)]

\* rows that differ from GoodRow in one cell
CoreRows ==
    {[GoodRow EXCEPT !.customer_id = v] :
        v \in {NA, Some("AUTO-100001"), Some("AUTO-100002")}}
    \cup {[GoodRow EXCEPT !.age = v] : v \in {NA, Some(FromInt(41))}}
    \cup {[GoodRow EXCEPT !.balance = v] : v \in {NA, Some(0 - 5), Some(0), Some(5)}}
    \cup {GoodRow}

\* rows with any set of cells absent, and with a malformed date
MixedRows ==
    {BlankCols(GoodRow, cols) : cols \in SUBSET ExpectedSet}
    \cup {BlankCols([GoodRow EXCEPT !.date_joined = Some(d)], cols) :
            d \in {"31.Feb.23", "2023-01-05"},
            cols \in SUBSET (ExpectedSet \ {"date_joined"})}

MissingChoices ==
    {{"age"}, {"balance"}, {"date_joined"}, {"customer_id", "surname"}}

WithBalances(bs) == [k \in 1..Len(bs) |-> [GoodRow EXCEPT !.balance = Some(bs[k])]]
WithAges(as) ==
    [k \in 1..Len(as) |->
        [GoodRow EXCEPT !.age = IF as[k] = 0 THEN NA ELSE Some(FromInt(as[k]))]]

\* balances [10, 10, 10, 10, 1000]
OutlierExample == RawFrame({}, WithBalances(<<10, 10, 10, 10, 1000>>))
\* ages [30, 30, 30, 30, 41, absent, absent]
AgeExample == RawFrame({}, WithAges(<<30, 30, 30, 30, 41, 0, 0>>))
\* one hundred and one balances of 0 and one of 5: the 99th percentile is 0
ZeroThresholdExample ==
    RawFrame({}, WithBalances([k \in 1..102 |-> IF k = 102 THEN 5 ELSE 0]))

RawFrames ==
    {RawFrame({}, rows) : rows \in UNION {[1..n -> CoreRows] : n \in 1..MaxRows}}
    \cup {RawFrame({}, <<r>>) : r \in MixedRows}
    \cup {RawFrame(cols, rows) :
            cols \in MissingChoices, rows \in UNION {[1..n -> CoreRows] : n \in 1..2}}
    \cup {OutlierExample, AgeExample, ZeroThresholdExample}

EmptyFrame ==
    [header |-> <<>>, rows |-> <<>>, balance_dtype |-> "none",
     validation_issues |-> <<>>, fix_suggestions |-> <<>>]

EmptyTracker == [ct \in {} |-> 0]

-----------------------------------------------------------------------------
(* The validation run: validate_data on the raw frame, the issue summary,  *)
(* and validate_data again on the frame the first run returned.            *)

\* lines 41-43, on the working copy
Prepare(frame) ==
    /\ df' = frame
    /\ balance_thresh' = BalanceThresh(frame)
    /\ existing_ids' = ExistingIds(frame.rows)
    /\ auto_id_counter' = AutoIdBase

\* lines 32-43
ValidateStart ==
    /\ pc = "start"
    /\ Prepare(WorkingCopy(df_raw))
    /\ issues' = <<>>
    /\ fixes' = <<>>
    /\ i' = 1
    /\ pc' = "loop"
    /\ UNCHANGED <<df_raw, run, raw0, out1, issue_tracker, qvars>>

\* lines 45-106, one iteration. iterrows() yields row i as it was when the
\* loop began; iteration i is the only one that writes to row i, so that is
\* row i of df.
ValidateRow ==
    /\ pc = "loop"
    /\ i <= Len(df.rows)
    /\ \E res \in {ProcessRow(df.rows[i], df.rows, i,
                              existing_ids, auto_id_counter, balance_thresh)} :
           /\ df' = [df EXCEPT !.rows = res.rows]
           /\ existing_ids' = res.ids
           /\ auto_id_counter' = res.counter
           /\ issues' = Append(issues, res.issues)
           /\ fixes' = Append(fixes, res.fixes)
    /\ i' = i + 1
    /\ UNCHANGED <<df_raw, pc, run, balance_thresh, raw0, out1, issue_tracker, qvars>>

WithDerived(header) ==
    header \o SelectSeq(<<"validation_issues", "fix_suggestions">>,
                        LAMBDA c : ~HasColumn(header, c))

\* lines 108-111
ValidateFinish ==
    /\ pc = "loop"
    /\ i > Len(df.rows)
    /\ \E result \in {[df EXCEPT !.header = WithDerived(df.header),
                                 !.validation_issues = issues,
                                 !.fix_suggestions = fixes]} :
           /\ df' = result
           /\ df_raw' = result
           /\ out1' = IF run = 1 THEN result ELSE out1
    /\ pc' = "done"
    /\ UNCHANGED <<run, i, balance_thresh, existing_ids, auto_id_counter,
                   issues, fixes, raw0, issue_tracker, qvars>>

\* src/app02.py lines 51-84
Summarize ==
    /\ pc = "done"
    /\ issue_tracker' = IssueTracker(df.validation_issues)
    /\ pc' = "summarized"
    /\ UNCHANGED <<df_raw, df, run, i, balance_thresh, existing_ids, auto_id_counter,
                   issues, fixes, raw0, out1, qvars>>

\* validate_data is handed the state its first run returned
Revalidate ==
    /\ pc = "summarized"
    /\ run = 1
    /\ run' = 2
    /\ pc' = "start"
    /\ UNCHANGED <<df_raw, df, i, balance_thresh, existing_ids, auto_id_counter,
                   issues, fixes, raw0, out1, issue_tracker, qvars>>

\* src/app02.py lines 11-14; no question asked yet
QaIdle ==
    /\ chat_history = <<>>
    /\ submitted_question = NA
    /\ script_pc = "idle"
    /\ local = [sql |-> "", df_answer |-> EmptyTable, status |-> "FAILED"]
    /\ qa_pc = "idle"
    /\ state = NoState
    /\ calls = [generate_sql |-> 0, run_sql |-> 0]
    /\ response = NA
    /\ store = NA

\* a raw frame has been read and nothing has run yet
Loaded(frames) ==
    /\ df_raw \in frames
    /\ raw0 = df_raw
    /\ df = EmptyFrame
    /\ out1 = EmptyFrame
    /\ pc = "start"
    /\ run = 1
    /\ i = 1
    /\ balance_thresh = NoThresh
    /\ existing_ids = {}
    /\ auto_id_counter = AutoIdBase
    /\ issues = <<>>
    /\ fixes = <<>>
    /\ issue_tracker = EmptyTracker

Init == Loaded(RawFrames) /\ QaIdle

Next ==
    \/ ValidateStart
    \/ ValidateRow
    \/ ValidateFinish
    \/ Summarize
    \/ Revalidate

Spec == Init /\ [][Next]_vars

-----------------------------------------------------------------------------
(* Properties of validate_data and of the issue summary, under Spec.       *)

\* the rows of the raw frame under their normalised column names
RawRows == WorkingCopy(raw0).rows

FirstRunDone == pc = "done" /\ run = 1
SecondRunDone == pc = "done" /\ run = 2

AllPresent(rows) == \A k \in 1..Len(rows), c \in ExpectedSet : ~IsNA(rows[k][c])

\* C1: after validate_data every row of the cleaned frame has a non-absent
\* value in each of the nine required columns, whatever was absent in the
\* raw frame.
C1_NoAbsentValue == FirstRunDone => AllPresent(df.rows)

Synthesized(raw) == {k \in 1..Len(raw) : IsNA(raw[k].customer_id)}

FreshIds(raw, rows) ==
    \A k \in Synthesized(raw) :
        /\ ~IsNA(rows[k].customer_id)
        /\ \A j \in Synthesized(raw) \ {k} : rows[j].customer_id # rows[k].customer_id
        /\ \A j \in 1..Len(raw) : raw[j].customer_id # rows[k].customer_id

\* C2: the ids validate_data synthesizes are pairwise distinct and none
\* equals an id present in any row of the raw frame, before or after the
\* repaired row, also when the raw frame holds AUTO-<n> ids itself.
C2_FreshIds == FirstRunDone => FreshIds(RawRows, df.rows)

\* a run that synthesized two ids around a raw row already named AUTO-100001
TakenIdAfter(raw) ==
    /\ Cardinality(Synthesized(raw)) >= 2
    /\ \E k \in Synthesized(raw), j \in 1..Len(raw) :
           k < j /\ raw[j].customer_id = Some(AutoId(AutoIdBase))

C2_Witness == FirstRunDone /\ TakenIdAfter(RawRows)

FilledWith(raw, rows, mean) ==
    \A k \in 1..Len(raw) : IsNA(raw[k].age) => rows[k].age = mean

OneMean(raw, rows) == PresentAges(raw) # <<>> => FilledWith(raw, rows, MeanAge(raw))

\* C3: when the raw frame has a present age, every absent age is filled
\* with one and the same value, the mean of the ages present in the raw
\* frame.
C3_OneMean == FirstRunDone => OneMean(RawRows, df.rows)

Entries(text) == IF text = "" THEN 0 ELSE Len(Split(text, ";"))

Flagged(frame) ==
    {k \in 1..Len(frame.rows) : Contains(frame.validation_issues[k], "Outlier in balance")}

AboveThresh(raw, thresh) == {k \in 1..Len(raw) : ExceedsThresh(raw[k].balance, thresh)}

NoFixForOutlier(frame) ==
    \A k \in 1..Len(frame.rows) :
        Entries(frame.fix_suggestions[k]) =
            Entries(frame.validation_issues[k]) - (IF k \in Flagged(frame) THEN 1 ELSE 0)

\* C4: with a numeric balance column, a row gets "Outlier in balance" if and
\* only if its original balance is above the 99th percentile of the original
\* balances, whatever that threshold is (zero and negative included); the
\* issue adds no fix entry; of balances [10,10,10,10,1000] only 1000 is
\* flagged.
C4_OutlierIff ==
    (FirstRunDone /\ raw0.balance_dtype = "float64") =>
        /\ Flagged(df) = AboveThresh(RawRows, Quantile99(RawRows))
        /\ NoFixForOutlier(df)
        /\ raw0 = OutlierExample => Flagged(df) = {5}

SameValid(before, after) ==
    \A k \in 1..Len(before), c \in ExpectedSet :
        ~IsNA(before[k][c]) => after[k][c] = before[k][c]

CleanRows(frame) == {k \in 1..Len(frame.rows) : frame.validation_issues[k] = ""}

NoBalanceRepaired(frame) ==
    \A k \in 1..Len(frame.rows) :
        ~Contains(frame.fix_suggestions[k], "Filled balance with 0")

\* C5 as stated: validate_data run on its own output changes no valid field
\* and every row that was clean after the first run is clean after the
\* second.
C5_StaysClean ==
    SecondRunDone =>
        /\ SameValid(out1.rows, df.rows)
        /\ \A k \in CleanRows(out1) : df.validation_issues[k] = ""

\* C5, amended: validate_data run on its own output changes no valid field,
\* and a row that was clean after the first run has, after the second, no
\* issue or the one issue "Outlier in balance"; it has none when the first
\* run repaired no balance.
C5_CleanOrOutlier ==
    SecondRunDone =>
        /\ SameValid(out1.rows, df.rows)
        /\ \A k \in CleanRows(out1) :
               /\ df.validation_issues[k] \in {"", "Outlier in balance"}
               /\ NoBalanceRepaired(out1) => df.validation_issues[k] = ""

\* a row clean after the first run and flagged by the second
C5_Witness ==
    /\ SecondRunDone
    /\ \E k \in CleanRows(out1) : df.validation_issues[k] = "Outlier in balance"

BothMissing(raw) == {k \in 1..Len(raw) : IsNA(raw[k].balance) /\ IsNA(raw[k].date_joined)}

\* C6: issues and fixes are listed in rule order, one fix per issue but for
\* the outlier issue; a row that lacks balance and date_joined ends with
\* balance 0, date_joined "01.Jan.00" and the issue "Missing or negative
\* balance" followed by "Bad date format".
C6_RuleOrder ==
    FirstRunDone =>
        /\ NoFixForOutlier(df)
        /\ \A k \in BothMissing(RawRows) :
               /\ df.rows[k].balance = Some(0)
               /\ df.rows[k].date_joined = Some(DefaultDate)
               /\ Contains(df.validation_issues[k],
                           "Missing or negative balance; Bad date format")

\* the issue texts of validate_data, each with the column of its rule
RuleTexts ==
    << <<"Missing customer_id", "customer_id">>,
       <<"Missing name", "name">>,
       <<"Missing surname", "surname">>,
       <<"Missing gender", "gender">>,
       <<"Missing region", "region">>,
       <<"Missing job_classification", "job_classification">>,
       <<"Missing age", "age">>,
       <<"Missing or negative balance", "balance">>,
       <<"Bad date format", "date_joined">>,
       <<"Outlier in balance", "balance">> >>

\* how many issues the rules of column c emitted, over all rows
Emitted(col, c) ==
    Cardinality({kn \in (1..Len(col)) \X (1..Len(RuleTexts)) :
                    /\ RuleTexts[kn[2]][2] = c
                    /\ Contains(col[kn[1]], RuleTexts[kn[2]][1])})

RECURSIVE Total(_, _)
Total(f, S) ==
    IF S = {} THEN 0
    ELSE f[CHOOSE x \in S : TRUE] + Total(f, S \ {CHOOSE x \in S : TRUE})

\* how many issues the summary counts under column c
CountedUnder(tracker, c) == Total(tracker, {key \in DOMAIN tracker : key[1] = c})

\* C10: the summary counts every issue under the column of the rule that
\* emitted it, none under unknown, and its counts sum to the number of
\* issues over all rows.
C10_RightColumn ==
    pc = "summarized" =>
        /\ \A c \in ExpectedSet :
               CountedUnder(issue_tracker, c) = Emitted(df.validation_issues, c)
        /\ CountedUnder(issue_tracker, "unknown") = 0
        /\ Total(issue_tracker, DOMAIN issue_tracker) =
               Total([k \in 1..Len(df.validation_issues) |-> Entries(df.validation_issues[k])],
                     1..Len(df.validation_issues))

-----------------------------------------------------------------------------
(* One invocation of the QA graph, node by node, for every behaviour of    *)
(* the model call and of the store.                                        *)

Questions == {"How many customers?", "Average balance by region?"}

ExampleReply == "Sure! SELECT * FROM customers WHERE age < 30; Let me know if that helps."

Fragments == {"SELECT", "select", ";", " 1;", "Sure! "}

\* the texts made of up to n fragments
RECURSIVE Texts(_)
Texts(n) ==
    IF n = 0 THEN {""}
    ELSE Texts(n - 1) \cup {t \o f : t \in Texts(n - 1), f \in Fragments}

\* what the model call does: it returns a text, or it raises
Responses == {Some(t) : t \in Texts(MaxFragments) \cup {ExampleReply}} \cup {NA}

\* what the query does: it returns a table, or it raises
StoreOutcomes ==
    {NA, Some([columns |-> 1, rows |-> 0]), Some([columns |-> 2, rows |-> 3])}

\* src/app02.py line 117 and src/utils_agentic.py line 179: the entry point
QaInvoke ==
    /\ qa_pc = "idle"
    /\ \E question \in Questions : state' = Entry(question)
    /\ calls' = [generate_sql |-> 0, run_sql |-> 0]
    /\ response' = NA
    /\ store' = NA
    /\ qa_pc' = "generate_sql"
    /\ UNCHANGED <<vvars, cvars>>

\* src/utils_agentic.py lines 177 and 180: the node generate_sql
generate_sql ==
    /\ qa_pc = "generate_sql"
    /\ \E reply \in Responses :
           /\ response' = reply
           /\ state' = run_llm_sql(state, reply)
    /\ calls' = [calls EXCEPT !.generate_sql = @ + 1]
    /\ qa_pc' = "run_sql"
    /\ UNCHANGED <<vvars, cvars, store>>

\* src/utils_agentic.py lines 178 and 181: the node run_sql
run_sql ==
    /\ qa_pc = "run_sql"
    /\ \E outcome \in StoreOutcomes :
           /\ store' = outcome
           /\ state' = execute_sql(state, outcome)
    /\ calls' = [calls EXCEPT !.run_sql = @ + 1]
    /\ qa_pc' = "end"
    /\ UNCHANGED <<vvars, cvars, response>>

InitQA == Loaded({RawFrame({}, <<GoodRow>>)}) /\ QaIdle

NextQA ==
    \/ QaInvoke
    \/ generate_sql
    \/ run_sql

SpecQA == InitQA /\ [][NextQA]_vars

-----------------------------------------------------------------------------
(* Properties of the QA graph, under SpecQA.                               *)

\* C7: one invocation runs generate_sql and then run_sql, once each, and
\* ends; it ends FAILED with an empty result when the generated SQL is
\* empty or the query fails, OK only with the table the query returned;
\* when the generator fails the SQL is empty and the end is FAILED.
C7_Pipeline ==
    /\ qa_pc \in {"idle", "generate_sql", "run_sql", "end"}
    /\ qa_pc = "generate_sql" => calls = [generate_sql |-> 0, run_sql |-> 0]
    /\ qa_pc = "run_sql" => calls = [generate_sql |-> 1, run_sql |-> 0]
    /\ qa_pc = "end" =>
           /\ calls = [generate_sql |-> 1, run_sql |-> 1]
           /\ state.status \in {Some("OK"), Some("FAILED")}
           /\ (state.sql = Some("") \/ IsNA(store)) =>
                  state.status = Some("FAILED") /\ state.result = Some(EmptyTable)
           /\ state.status = Some("OK") => ~IsNA(store) /\ state.result = store
           /\ IsNA(response) => state.sql = Some("") /\ state.status = Some("FAILED")

\* the generator failed and the store would have answered
C7_Witness == qa_pc = "end" /\ IsNA(response) /\ ~IsNA(store)

Generated == qa_pc \in {"run_sql", "end"} /\ ~IsNA(response)

Keywords(t) == {p \in 1..Len(t) : KeywordAt(t, p)}

\* the semicolons of t at gap characters or more after the keyword at p
SemicolonsAfter(t, p, gap) == {q \in (p + 6 + gap)..Len(t) : CharAt(t, q) = ";"}

\* the text from the first keyword to the first semicolon at gap characters
\* or more after it, or "" when there is no keyword with such a semicolon
FirstStatement(t, gap) ==
    IF \E p \in Keywords(t) : SemicolonsAfter(t, p, gap) # {}
    THEN SubSeq(t, SetMin(Keywords(t)),
                SetMin(SemicolonsAfter(t, SetMin(Keywords(t)), gap)))
    ELSE ""

ExtractsAs(gap) ==
    Generated =>
        /\ state.sql = Some(FirstStatement(Val(response), gap))
        /\ (state.sql = Some("") /\ qa_pc = "end") => state.status = Some("FAILED")
        /\ response = Some(ExampleReply) =>
               state.sql = Some("SELECT * FROM customers WHERE age < 30;")

\* C8 as stated: the generated SQL runs from the first SELECT, in any case,
\* to the next semicolon after it, and is empty when no SELECT is followed
\* by a semicolon, and then the end is FAILED; the example reply gives
\* "SELECT * FROM customers WHERE age < 30;".
C8_NextSemicolon == ExtractsAs(0)

\* C8, amended: the generated SQL runs from the first SELECT, in any case,
\* to the first semicolon that stands one character or more after the
\* keyword, and is empty when no SELECT has such a semicolon, and then the
\* end is FAILED; the example reply gives
\* "SELECT * FROM customers WHERE age < 30;".
C8_SemicolonAfterBody == ExtractsAs(1)

\* a semicolon right after the keyword is part of the statement
C8_Witness ==
    /\ qa_pc = "end"
    /\ response = Some("SELECT; 1;")
    /\ state.sql = Some("SELECT; 1;")

-----------------------------------------------------------------------------
(* The Streamlit script of src/app02.py with a file uploaded: every event  *)
(* of the page runs the script from the top.                               *)

ChatResponses == {NA, Some(ExampleReply), Some("I cannot answer that.")}
ChatOutcomes == {NA, Some([columns |-> 2, rows |-> 3])}

\* bool(st.session_state.submitted_question): None and "" are falsy
Pending(question) == ~IsNA(question) /\ Val(question) # ""

\* line 112
Defaults == [sql |-> "", df_answer |-> EmptyTable, status |-> "FAILED"]

\* lines 105-107
Stored(button, question_input, question) ==
    IF button /\ question_input # "" THEN Some(question_input) ELSE question

\* lines 105-110, for a click on Submit Question or for any other event
ScriptTop(button, question_input) ==
    /\ script_pc = "idle"
    /\ Len(chat_history) < MaxHistory
    /\ submitted_question' = Stored(button, question_input, submitted_question)
    /\ script_pc' = IF Pending(submitted_question') THEN "process" ELSE "idle"
    /\ UNCHANGED <<vvars, gvars, chat_history, local>>

SubmitQuestion == \E question_input \in Questions \cup {""} : ScriptTop(TRUE, question_input)

Rerun == \E question_input \in Questions \cup {""} : ScriptTop(FALSE, question_input)

\* lines 118-120
Unpacked(result) ==
    [sql       |-> Get(result, "sql", ""),
     df_answer |-> Get(result, "result", EmptyTable),
     status    |-> Get(result, "status", "FAILED")]

\* lines 111-120: the graph is built and invoked, and it returns
Process ==
    /\ script_pc = "process"
    /\ \E reply \in ChatResponses, outcome \in ChatOutcomes :
           local' = Unpacked(Invoke(Val(submitted_question), reply, outcome))
    /\ script_pc' = "append"
    /\ UNCHANGED <<vvars, gvars, chat_history, submitted_question>>

\* lines 111-117 and 121-122: building or invoking the graph raises
ProcessRaises ==
    /\ script_pc = "process"
    /\ local' = Defaults
    /\ script_pc' = "append"
    /\ UNCHANGED <<vvars, gvars, chat_history, submitted_question>>

\* the question left in the session state
Kept(question) == question

\* line 125
Consumed(question) == NA

\* lines 124-125
AppendRecord ==
    /\ script_pc = "append"
    /\ chat_history' = Append(chat_history,
           <<Val(submitted_question), local.sql, local.df_answer, local.status>>)
    /\ submitted_question' = Consumed(submitted_question)
    /\ script_pc' = "idle"
    /\ UNCHANGED <<vvars, gvars, local>>

\* lines 128 and 144-145, in a run whose lines 105-125 found nothing to process
ClearHistory ==
    /\ script_pc = "idle"
    /\ ~Pending(submitted_question)
    /\ chat_history # <<>>
    /\ chat_history' = <<>>
    /\ UNCHANGED <<vvars, gvars, submitted_question, script_pc, local>>

NextChat ==
    \/ SubmitQuestion
    \/ Rerun
    \/ Process
    \/ ProcessRaises
    \/ AppendRecord
    \/ ClearHistory

SpecChat == InitQA /\ [][NextChat]_vars

-----------------------------------------------------------------------------
(* Properties of the chat transcript, under SpecChat.                      *)

\* a failed exchange with no SQL and no result
BareFailure(rec) == rec[4] = "FAILED" => rec[2] = "" /\ rec[3] = EmptyTable

\* a failed exchange has no result, and an exchange without SQL has failed
Failure(rec) ==
    /\ rec[4] = "FAILED" => rec[3] = EmptyTable
    /\ rec[2] = "" => rec[4] = "FAILED"

\* one record, for the question in process, is added at the end
Appended ==
    /\ script_pc = "append"
    /\ script_pc' = "idle"
    /\ Len(chat_history') = Len(chat_history) + 1
    /\ SubSeq(chat_history', 1, Len(chat_history)) = chat_history
    /\ chat_history'[Len(chat_history')][1] = Val(submitted_question)

Cleared ==
    /\ script_pc = "idle"
    /\ script_pc' = "idle"
    /\ chat_history' = <<>>

Recorded(rec, bare) == IF bare THEN BareFailure(rec) ELSE Failure(rec)

TranscriptStep(bare) ==
    /\ chat_history' # chat_history => Appended \/ Cleared
    /\ (script_pc = "idle" /\ script_pc' # "idle") => Pending(submitted_question')
    /\ (script_pc # "idle" /\ script_pc' = "idle") => Appended
    /\ script_pc' = "idle" => ~Pending(submitted_question')
    /\ \A k \in 1..Len(chat_history') : Recorded(chat_history'[k], bare)

\* C9 as stated: every submitted question adds one record at the end of the
\* transcript, with empty SQL, an empty result and FAILED when the pipeline
\* fails or raises; records are never changed, reordered or duplicated by
\* later questions or reruns; only the clear operation removes records.
C9_BareFailures == [][TranscriptStep(TRUE)]_vars

\* C9, amended: every submitted question adds one record at the end of the
\* transcript; when the pipeline fails or raises the record has an empty
\* result and FAILED, and it has empty SQL only with FAILED (a statement
\* whose execution failed stays in the record); records are never changed,
\* reordered or duplicated by later questions or reruns; only the clear
\* operation removes records.
C9_AppendOnly == [][TranscriptStep(FALSE)]_vars

\* two exchanges recorded, one with a statement whose execution failed
C9_Witness ==
    /\ Len(chat_history) >= 2
    /\ \E k \in 1..Len(chat_history) :
           chat_history[k][4] = "FAILED" /\ chat_history[k][2] # ""

====
